---- MODULE Spec2Model ----
(***************************************************************************)
(* Elo rating engine of tm-q-bot: EloService.processMatch and the periodic *)
(* poll of startEloPolling, run by concurrent callers against a PostgreSQL *)
(* store at its default isolation level (READ COMMITTED).                  *)
(*                                                                         *)
(* One action per awaited query: JavaScript runs the code between two      *)
(* awaits without interleaving, so a step is "the query takes effect and   *)
(* the continuation runs up to the next await".  Writes of an open         *)
(* transaction live in the caller's write set (wr, wh, wflag) and reach    *)
(* the tables at COMMIT; a row written by an open transaction blocks other *)
(* writers of that row until the transaction ends.                         *)
(***************************************************************************)
EXTENDS Integers, Sequences, FiniteSets, TLC

(* ---------------------------------------------------------------- data *)

Players == {"p1", "p2", "p3"}

Leagues == {"Academy", "Champion", "Master"}

\* rows of the scrims table, and the ids a caller may pass (NoSuchScrim has no row)
MaxScrim == 2
ScrimRows == 1..MaxScrim
NoSuchScrim == MaxScrim + 1
ScrimIds == ScrimRows \cup {NoSuchScrim}

\* callers that may each have one poll cycle or one explicit call in flight
Threads == {"a", "b"}

\* the order in which the participant query returns its rows: by player, then team.
\* SQL leaves the order open; the rows of one team are distinct players, whose updates
\* touch different rows, so the order decides only the order of the history rows of
\* one transaction.
PlayerOrder == <<"p1", "p2", "p3">>

K == 32
DefaultRating == 1000

NULL == 0
NoRow == [none |-> TRUE]

VARIABLES
    scrim_players,       \* scrim_players table: id -> set of player ids (read only here)
    scrims,              \* scrims table: id -> [status, winner_team, elo_processed, league]
    match_player_stats,  \* set of <<scrim_id, player_id, team_id>> (one per distinct team id)
    elo_ratings,         \* <<player_id, league>> -> [rating, wins, losses], rows that exist
    elo_history,         \* sequence of [player_id, scrim_id, old_rating, new_rating], by commit
    ingest,              \* what the parser and the queue have still to store
    warned,              \* scrim ids of the "Missing team assignments" warnings logged
    th                   \* per caller: position and locals of the call in flight

vars == <<scrim_players, scrims, match_player_stats, elo_ratings, elo_history, ingest, warned, th>>

EmptyFn == [x \in {} |-> 0]

Idle == [pc |-> "idle", kind |-> "none", scrimId |-> 0, scrim |-> NoRow,
         players |-> <<>>, next |-> 0, ratings |-> EmptyFn,
         team |-> 0, todo |-> <<>>,
         wr |-> EmptyFn, wh |-> <<>>, wflag |-> FALSE,
         rows |-> <<>>, outcome |-> "none"]

Errors == {"MatchNotFound", "InvalidMatchState", "MissingWinner", "StoreError"}

(* ------------------------------------------------------ pure functions *)

\* floor(1000 * 400 * log10((2k-1) / (65-2k))) for k = 1..K: the rating
\* differences d at which round(K * (1 - 1/(1 + 10^(d/400)))) steps from k-1 to k.
\* The thresholds are irrational; cut to three decimals they place every d = n / len
\* with len <= 5 exactly as the floating point computation does.
Thresholds ==
    << -719737, -523284, -428753, -364311, -314449, -273154, -237451, -205642,
       -176660, -149784, -124500, -100423,  -77250,  -54736,  -32669,  -10861,
         10860,   32668,   54735,   77249,  100422,  124499,  149783,  176659,
        205641,  237450,  273153,  314448,  364310,  428752,  523283,  719736 >>

\* an average kept exact as sum / len
Avg(sum, len) == [sum |-> sum, len |-> len]

\* Math.round(currentRating + K * (result - expectedScore)) with
\* expectedScore = 1 / (1 + 10^((opponentRating - currentRating) / 400)),
\* opponentRating = opp.sum / opp.len.  With d = currentRating - opponentRating
\* the rounded gain of a win is the number of thresholds below d, and a loss
\* is K less.
calculateNewRating(currentRating, opp, result) ==
    LET num == currentRating * opp.len - opp.sum
        gain == Cardinality({k \in 1..K : num * 1000 > Thresholds[k] * opp.len})
    IN  currentRating + gain - K * (1 - result)

\* team.reduce((sum, p) => sum + ratings.get(p.player_id).rating, 0)
RECURSIVE SumRatings(_, _)
SumRatings(team, ratings) ==
    IF team = <<>> THEN 0
    ELSE ratings[Head(team)[1]].rating + SumRatings(Tail(team), ratings)

\* all orders in which a query may return a set of rows
Orderings(S) ==
    {q \in [1..Cardinality(S) -> S] : \A i, j \in 1..Cardinality(S) : i # j => q[i] # q[j]}

(* ------------------------------------------------------------- queries *)

\* SELECT sp.player_id, mps.team_id FROM scrim_players sp LEFT JOIN match_player_stats ...
\* GROUP BY sp.player_id, mps.team_id: one row per (player, team id), team NULL without stats
PlayerRows(id, p) ==
    IF p \notin scrim_players[id] THEN <<>>
    ELSE IF \A tm \in {1, 2} : <<id, p, tm>> \notin match_player_stats THEN << <<p, NULL>> >>
    ELSE (IF <<id, p, 1>> \in match_player_stats THEN << <<p, 1>> >> ELSE <<>>)
         \o (IF <<id, p, 2>> \in match_player_stats THEN << <<p, 2>> >> ELSE <<>>)

RECURSIVE PlayersFrom(_, _)
PlayersFrom(id, i) ==
    IF i > Len(PlayerOrder) THEN <<>>
    ELSE PlayerRows(id, PlayerOrder[i]) \o PlayersFrom(id, i + 1)

PlayersQuery(id) == IF id \notin ScrimRows THEN <<>> ELSE PlayersFrom(id, 1)

\* (mutant) a retry cap: the scan leaves out a scrim that was skipped once
PollQuerySkipsWarned ==
    {id \in ScrimRows \ warned : /\ scrims[id].status = "completed"
                                 /\ ~scrims[id].elo_processed
                                 /\ scrims[id].winner_team # NULL}

\* (mutant) the scan's SELECT without the winner_team IS NOT NULL condition
PollQueryAnyWinner ==
    {id \in ScrimRows : scrims[id].status = "completed" /\ ~scrims[id].elo_processed}

\* SELECT id FROM scrims WHERE status = 'completed' AND elo_processed = FALSE
\*                       AND winner_team IS NOT NULL
PollQuery ==
    {id \in ScrimRows : /\ scrims[id].status = "completed"
                        /\ ~scrims[id].elo_processed
                        /\ scrims[id].winner_team # NULL}

\* the row of elo_ratings a statement of t's transaction sees: its own write, else the table
VisibleRating(t, key) ==
    IF key \in DOMAIN th[t].wr THEN th[t].wr[key]
    ELSE IF key \in DOMAIN elo_ratings THEN elo_ratings[key]
    ELSE NoRow

\* a row written by another open transaction is locked until that transaction ends
RatingLocked(t, key) == \E u \in Threads \ {t} : key \in DOMAIN th[u].wr
ScrimLocked(t, id) == \E u \in Threads \ {t} : th[u].wflag /\ th[u].scrimId = id

\* (mutant) team 2 is whoever is not in team 1, a participant without team slot included
IsNotTeam1(r) == r[2] # 1
IsTeam1(r) == r[2] = 1
IsTeam2(r) == r[2] = 2
team1(players) == SelectSeq(players, IsTeam1)
team2(players) == SelectSeq(players, IsTeam2)

(* ------------------------------------------------------- initial state *)

\* the stats of scrim 2: p2 played in team 1, p3 in team 2
ReadyStats == {<<2, "p2", 1>>, <<2, "p3", 2>>}

\* scrim 1 is still being played and parsed; scrim 2 is ready to be rated; any further
\* scrim is completed with a winner, but the parser has stored no stats for it
Init ==
    /\ scrims = [id \in ScrimRows |->
                   [status |-> IF id = 1 THEN "active" ELSE "completed",
                    winner_team |-> IF id = 1 THEN NULL ELSE 1,
                    elo_processed |-> FALSE, league |-> "Academy"]]
    /\ scrim_players = [id \in ScrimRows |-> IF id = 1 THEN {"p1", "p2"} ELSE {"p2", "p3"}]
    /\ match_player_stats = {<<1, "p1", 1>>} \cup ReadyStats
    /\ ingest = {<<"status", 1>>, <<"winner", 1, 2>>, <<"stats", 1, "p2", 2>>}
    /\ elo_ratings = EmptyFn
    /\ elo_history = <<>>
    /\ warned = {}
    /\ th = [t \in Threads |-> Idle]

\* one caller; scrim 1 has three participants and the parser may put p2 in both teams
InitSeq ==
    /\ scrims = [id \in ScrimRows |->
                   [status |-> IF id = 1 THEN "active" ELSE "completed",
                    winner_team |-> IF id = 1 THEN NULL ELSE 1,
                    elo_processed |-> FALSE, league |-> "Academy"]]
    /\ scrim_players = [id \in ScrimRows |-> IF id = 1 THEN Players ELSE {"p2", "p3"}]
    /\ match_player_stats = ReadyStats
    /\ ingest = {<<"status", 1>>, <<"winner", 1, 1>>, <<"winner", 1, 2>>,
                 <<"stats", 1, "p1", 1>>, <<"stats", 1, "p2", 1>>,
                 <<"stats", 1, "p2", 2>>, <<"stats", 1, "p3", 2>>}
    /\ elo_ratings = EmptyFn
    /\ elo_history = <<>>
    /\ warned = {}
    /\ th = [t \in Threads |-> Idle]

\* one caller and the scrims of InitSeq, the scrims after the first played in any league
InitLeagues ==
    /\ \E league \in Leagues :
          scrims = [id \in ScrimRows |->
                      [status |-> IF id = 1 THEN "active" ELSE "completed",
                       winner_team |-> IF id = 1 THEN NULL ELSE 1,
                       elo_processed |-> FALSE,
                       league |-> IF id = 1 THEN "Academy" ELSE league]]
    /\ scrim_players = [id \in ScrimRows |-> IF id = 1 THEN Players ELSE {"p2", "p3"}]
    /\ match_player_stats = ReadyStats
    /\ ingest = {<<"status", 1>>, <<"winner", 1, 1>>, <<"winner", 1, 2>>,
                 <<"stats", 1, "p1", 1>>, <<"stats", 1, "p2", 1>>,
                 <<"stats", 1, "p2", 2>>, <<"stats", 1, "p3", 2>>}
    /\ elo_ratings = EmptyFn
    /\ elo_history = <<>>
    /\ warned = {}
    /\ th = [t \in Threads |-> Idle]

\* one caller; the row of scrim 1 is any row the columns admit: the service is not the
\* only writer of the scrims table, and the guards read the row as they find it
Statuses == {"active", "completed"}
InitAnyRow ==
    /\ \E row \in [status : Statuses, winner_team : {NULL, 1, 2},
                    elo_processed : BOOLEAN, league : {"Academy"}] :
          scrims = [id \in ScrimRows |->
                      IF id = 1 THEN row
                      ELSE [status |-> "completed", winner_team |-> 1,
                            elo_processed |-> FALSE, league |-> "Academy"]]
    /\ scrim_players = [id \in ScrimRows |-> IF id = 1 THEN {"p1", "p2"} ELSE {"p2", "p3"}]
    /\ match_player_stats = {<<1, "p1", 1>>} \cup ReadyStats
    /\ ingest = {<<"status", 1>>, <<"winner", 1, 2>>, <<"stats", 1, "p2", 2>>}
    /\ elo_ratings = EmptyFn
    /\ elo_history = <<>>
    /\ warned = {}
    /\ th = [t \in Threads |-> Idle]

(* -------------------------------------------------------- processMatch *)

\* (mutant) the winner_team check of line 42 comes before the elo_processed check of line 34
GuardsWinnerBeforeProcessed(scrim) ==
    IF scrim = NoRow THEN "MatchNotFound"
    ELSE IF scrim.status # "completed" THEN "InvalidMatchState"
    ELSE IF scrim.winner_team = NULL THEN "MissingWinner"
    ELSE IF scrim.elo_processed THEN "AlreadyProcessed"
    ELSE "ok"

\* (mutant) the winner_team check of line 42 is missing
GuardsWithoutWinnerCheck(scrim) ==
    IF scrim = NoRow THEN "MatchNotFound"
    ELSE IF scrim.status # "completed" THEN "InvalidMatchState"
    ELSE IF scrim.elo_processed THEN "AlreadyProcessed"
    ELSE "ok"

\* the guards of lines 32-44 in the order the code evaluates them
Guards(scrim) ==
    IF scrim = NoRow THEN "MatchNotFound"
    ELSE IF scrim.status # "completed" THEN "InvalidMatchState"
    ELSE IF scrim.elo_processed THEN "AlreadyProcessed"
    ELSE IF scrim.winner_team = NULL THEN "MissingWinner"
    ELSE "ok"

\* the call is over: it returned, or it threw after the ROLLBACK of the catch block.
\* The locals are dropped; players and wh stay as the record of what the call read
\* and of the history rows it committed or rolled back.
Finish(me, outcome) ==
    [Idle EXCEPT !.pc = "done", !.kind = me.kind, !.scrimId = me.scrimId,
                 !.rows = me.rows, !.outcome = outcome,
                 !.players = me.players, !.wh = me.wh]

\* explicit path: some caller invokes processMatch(id)
Call(t, id) ==
    /\ th[t].pc = "idle"
    /\ th' = [th EXCEPT ![t] = [Idle EXCEPT !.pc = "selectScrim", !.kind = "explicit",
                                            !.scrimId = id]]
    /\ UNCHANGED <<scrim_players, scrims, match_player_stats, elo_ratings, elo_history, ingest, warned>>

\* BEGIN; SELECT * FROM scrims WHERE id = $1; then the guards
SelectScrim(t) ==
    /\ th[t].pc = "selectScrim"
    /\ LET id == th[t].scrimId
           scrim == IF id \in ScrimRows THEN scrims[id] ELSE NoRow
           g == Guards(scrim)
       IN  th' = [th EXCEPT ![t] =
                    IF g # "ok" THEN Finish(@, g)
                    ELSE [@ EXCEPT !.pc = "selectPlayers", !.scrim = scrim]]
    /\ UNCHANGED <<scrim_players, scrims, match_player_stats, elo_ratings, elo_history, ingest, warned>>

\* (mutant) the check of line 90 with && for ||: only two empty teams are skipped
AfterRatingsBothEmpty(me) ==
    IF team1(me.players) = <<>> /\ team2(me.players) = <<>>
    THEN Finish(me, "SkippedIncompleteTeams")
    ELSE [me EXCEPT !.pc = "updatePlayerRating", !.team = 1, !.todo = team1(me.players)]

\* lines 87-96 once every rating is read: an empty team rolls back and returns
AfterRatings(me) ==
    IF team1(me.players) = <<>> \/ team2(me.players) = <<>>
    THEN Finish(me, "SkippedIncompleteTeams")
    ELSE [me EXCEPT !.pc = "updatePlayerRating", !.team = 1, !.todo = team1(me.players)]

\* logger.warn of line 93, kept as the set of scrim ids warned about
WarnLog(me) ==
    IF me.pc = "done" /\ me.outcome = "SkippedIncompleteTeams"
    THEN warned \cup {me.scrimId} ELSE warned

\* the participant query of lines 48-57
SelectPlayers(t) ==
    /\ th[t].pc = "selectPlayers"
    /\ LET players == PlayersQuery(th[t].scrimId)
       IN  th' = [th EXCEPT ![t] =
                    IF players = <<>> THEN AfterRatings([@ EXCEPT !.players = players])
                    ELSE [@ EXCEPT !.pc = "selectRating", !.players = players, !.next = 1]]
    /\ warned' = WarnLog(th'[t])
    /\ UNCHANGED <<scrim_players, scrims, match_player_stats, elo_ratings, elo_history, ingest>>

\* the default record of lines 71-79
DefaultRecord == [rating |-> DefaultRating, wins |-> 0, losses |-> 0]

\* one pass of the loop of lines 61-81: SELECT * FROM elo_ratings WHERE player_id, league
SelectRating(t) ==
    /\ th[t].pc = "selectRating"
    /\ LET me == th[t]
           p == me.players[me.next][1]
           row == VisibleRating(t, <<p, me.scrim.league>>)
           rec == IF row # NoRow THEN row ELSE DefaultRecord
           ratings == [q \in DOMAIN me.ratings \cup {p} |->
                         IF q = p THEN rec ELSE me.ratings[q]]
           read == [me EXCEPT !.ratings = ratings, !.next = @ + 1]
       IN  th' = [th EXCEPT ![t] =
                    IF me.next = Len(me.players) THEN AfterRatings(read) ELSE read]
    /\ warned' = WarnLog(th'[t])
    /\ UNCHANGED <<scrim_players, scrims, match_player_stats, elo_ratings, elo_history, ingest>>

team1AvgRating(me) == Avg(SumRatings(team1(me.players), me.ratings), Len(team1(me.players)))
team2AvgRating(me) == Avg(SumRatings(team2(me.players), me.ratings), Len(team2(me.players)))
team1Result(me) == IF me.scrim.winner_team = 1 THEN 1 ELSE 0
team2Result(me) == IF me.scrim.winner_team = 2 THEN 1 ELSE 0

\* (mutant) the opposing average is taken from the ratings as written so far in this
\* run instead of the ratings map read before the first write
OppAvgAfterWrites(me) ==
    LET now == [p \in DOMAIN me.ratings |->
                  IF <<p, me.scrim.league>> \in DOMAIN me.wr
                  THEN me.wr[<<p, me.scrim.league>>] ELSE me.ratings[p]]
        opp == IF me.team = 1 THEN team2(me.players) ELSE team1(me.players)
    IN  Avg(SumRatings(opp, now), Len(opp))

\* the arguments of the updatePlayerRating call the loops of lines 105-118 make next
TeamResult(me) == IF me.team = 1 THEN team1Result(me) ELSE team2Result(me)
OppAvg(me) == IF me.team = 1 THEN team2AvgRating(me) ELSE team1AvgRating(me)
CurrentRating(me) == me.ratings[Head(me.todo)[1]]
NewRating(me) == calculateNewRating(CurrentRating(me).rating, OppAvg(me), TeamResult(me))

\* (mutant) ON CONFLICT sets the counters to the inserted values, wins = EXCLUDED.wins
UpsertRowResetsCounters(row, newRating, isWin) ==
    [rating |-> newRating, wins |-> IF isWin THEN 1 ELSE 0,
     losses |-> IF isWin THEN 0 ELSE 1]

\* INSERT INTO elo_ratings ... ON CONFLICT (player_id, league) DO UPDATE SET
\* rating = $3, wins = elo_ratings.wins + $6, losses = elo_ratings.losses + $7
UpsertRow(row, newRating, isWin) ==
    IF row = NoRow
    THEN [rating |-> newRating, wins |-> IF isWin THEN 1 ELSE 0,
          losses |-> IF isWin THEN 0 ELSE 1]
    ELSE [rating |-> newRating, wins |-> row.wins + (IF isWin THEN 1 ELSE 0),
          losses |-> row.losses + (IF isWin THEN 0 ELSE 1)]

\* INSERT INTO elo_history (player_id, scrim_id, old_rating, new_rating)
HistoryRow(me) ==
    [player_id |-> Head(me.todo)[1], scrim_id |-> me.scrimId,
     old_rating |-> CurrentRating(me).rating, new_rating |-> NewRating(me)]

\* one updatePlayerRating call of the loops of lines 105-118: the upsert, which waits while
\* another transaction holds the row, and the history insert, which waits for nothing
\* and is seen by nobody before the commit; then on to the next player, the other team
\* or the flag update
UpdatePlayerRating(t) ==
    /\ th[t].pc = "updatePlayerRating"
    /\ LET me == th[t]
           key == <<Head(me.todo)[1], me.scrim.league>>
           row == UpsertRow(VisibleRating(t, key), NewRating(me), TeamResult(me) = 1)
           wrote == [me EXCEPT !.wr = [k \in DOMAIN me.wr \cup {key} |->
                                         IF k = key THEN row ELSE me.wr[k]],
                               !.wh = Append(@, HistoryRow(me)),
                               !.todo = Tail(@)]
       IN  /\ ~RatingLocked(t, key)
           /\ th' = [th EXCEPT ![t] =
                       IF wrote.todo # <<>> THEN wrote
                       ELSE IF me.team = 1
                       THEN [wrote EXCEPT !.team = 2, !.todo = team2(me.players)]
                       ELSE [wrote EXCEPT !.pc = "updateScrim"]]
    /\ UNCHANGED <<scrim_players, scrims, match_player_stats, elo_ratings, elo_history, ingest, warned>>

\* UPDATE scrims SET elo_processed = TRUE WHERE id = $1
UpdateScrim(t) ==
    /\ th[t].pc = "updateScrim"
    /\ ~ScrimLocked(t, th[t].scrimId)
    /\ th' = [th EXCEPT ![t] = [@ EXCEPT !.pc = "commit", !.wflag = TRUE]]
    /\ UNCHANGED <<scrim_players, scrims, match_player_stats, elo_ratings, elo_history, ingest, warned>>

\* (mutant) the upsert's conflict target is the player alone: a written rating replaces
\* the player's record of every league
CommitRatingsAllLeagues(me) ==
    LET written == {k[1] : k \in DOMAIN me.wr}
    IN  [k \in DOMAIN elo_ratings \cup (written \X Leagues) |->
           IF k[1] \in written THEN me.wr[<<k[1], me.scrim.league>>] ELSE elo_ratings[k]]

\* the tables after COMMIT of a write set
CommitRatings(me) ==
    [k \in DOMAIN elo_ratings \cup DOMAIN me.wr |->
       IF k \in DOMAIN me.wr THEN me.wr[k] ELSE elo_ratings[k]]
CommitHistory(me) == elo_history \o me.wh
CommitScrims(me) ==
    IF me.wflag THEN [scrims EXCEPT ![me.scrimId].elo_processed = TRUE] ELSE scrims

\* COMMIT: the whole write set reaches the tables in one step
Commit(t) ==
    /\ th[t].pc = "commit"
    /\ elo_ratings' = CommitRatings(th[t])
    /\ elo_history' = CommitHistory(th[t])
    /\ scrims' = CommitScrims(th[t])
    /\ th' = [th EXCEPT ![t] = Finish(@, "Processed")]
    /\ UNCHANGED <<scrim_players, match_player_stats, ingest, warned>>

InFlight == {"selectScrim", "selectPlayers", "selectRating", "updatePlayerRating",
             "updateScrim", "commit"}

\* (mutants) the statements run outside the transaction, so the rollback keeps the
\* upserts already made; the catch block clears the processed flag for a retry
RollbackRatingsKeepsWrites(me) == CommitRatings(me)
RollbackScrimsClearsFlag(me) ==
    IF me.scrimId \in ScrimRows THEN [scrims EXCEPT ![me.scrimId].elo_processed = FALSE]
    ELSE scrims

\* the tables after ROLLBACK of a write set: nothing of it is kept
RollbackRatings(me) == elo_ratings
RollbackHistory(me) == elo_history
RollbackScrims(me) == scrims

\* the awaited query fails (conflict, deadlock, timeout, connection): catch, ROLLBACK, rethrow
Fail(t) ==
    /\ th[t].pc \in InFlight
    /\ elo_ratings' = RollbackRatings(th[t])
    /\ elo_history' = RollbackHistory(th[t])
    /\ scrims' = RollbackScrims(th[t])
    /\ th' = [th EXCEPT ![t] = Finish(@, "StoreError")]
    /\ UNCHANGED <<scrim_players, match_player_stats, ingest, warned>>

\* the explicit caller takes the outcome or the error
Return(t) ==
    /\ th[t].pc = "done"
    /\ th[t].kind = "explicit"
    /\ th' = [th EXCEPT ![t] = Idle]
    /\ UNCHANGED <<scrim_players, scrims, match_player_stats, elo_ratings, elo_history, ingest, warned>>

(* ------------------------------------------------------ startEloPolling *)

\* the next pass of the loop of lines 63-66, or the end of the cycle
NextRow(rows) ==
    IF rows = <<>> THEN [Idle EXCEPT !.pc = "cycleEnd", !.kind = "scan"]
    ELSE [Idle EXCEPT !.pc = "selectScrim", !.kind = "scan", !.scrimId = Head(rows),
                      !.rows = Tail(rows)]

\* the timer fires: the SELECT of lines 56-61, then the first processMatch call
Poll(t) ==
    /\ th[t].pc = "idle"
    /\ \E rows \in Orderings(PollQuery) : th' = [th EXCEPT ![t] = NextRow(rows)]
    /\ UNCHANGED <<scrim_players, scrims, match_player_stats, elo_ratings, elo_history, ingest, warned>>

\* what the cycle does when its processMatch call is over: a return goes on with the
\* loop, an error leaves the loop for the catch of line 70
AfterCall(me) ==
    IF me.outcome \in Errors
    THEN [Idle EXCEPT !.pc = "cycleEnd", !.kind = "scan", !.rows = me.rows,
                      !.outcome = me.outcome]
    ELSE NextRow(me.rows)

PollNext(t) ==
    /\ th[t].pc = "done"
    /\ th[t].kind = "scan"
    /\ th' = [th EXCEPT ![t] = AfterCall(th[t])]
    /\ UNCHANGED <<scrim_players, scrims, match_player_stats, elo_ratings, elo_history, ingest, warned>>

\* the callback is over (finally: client.release())
PollEnd(t) ==
    /\ th[t].pc = "cycleEnd"
    /\ th' = [th EXCEPT ![t] = Idle]
    /\ UNCHANGED <<scrim_players, scrims, match_player_stats, elo_ratings, elo_history, ingest, warned>>

(* ------------------------------------- ingestion (outside this service) *)

\* the parser stores a map's stats row of a participant, with the team it played in
InsertStats(e) ==
    /\ e \in ingest
    /\ e[1] = "stats"
    /\ match_player_stats' = match_player_stats \cup {<<e[2], e[3], e[4]>>}
    /\ ingest' = ingest \ {e}
    /\ UNCHANGED <<scrim_players, scrims, elo_ratings, elo_history, warned, th>>

\* the parser declares the winner of a scrim that has none
SetWinner(e) ==
    /\ e \in ingest
    /\ e[1] = "winner"
    /\ scrims[e[2]].winner_team = NULL
    /\ scrims' = [scrims EXCEPT ![e[2]].winner_team = e[3]]
    /\ ingest' = ingest \ {e}
    /\ UNCHANGED <<scrim_players, match_player_stats, elo_ratings, elo_history, warned, th>>

\* the scrim ends
Complete(e) ==
    /\ e \in ingest
    /\ e[1] = "status"
    /\ scrims' = [scrims EXCEPT ![e[2]].status = "completed"]
    /\ ingest' = ingest \ {e}
    /\ UNCHANGED <<scrim_players, match_player_stats, elo_ratings, elo_history, warned, th>>

Next ==
    \/ \E t \in Threads, id \in ScrimIds : Call(t, id)
    \/ \E t \in Threads : SelectScrim(t)
    \/ \E t \in Threads : SelectPlayers(t)
    \/ \E t \in Threads : SelectRating(t)
    \/ \E t \in Threads : UpdatePlayerRating(t)
    \/ \E t \in Threads : UpdateScrim(t)
    \/ \E t \in Threads : Commit(t)
    \/ \E t \in Threads : Fail(t)
    \/ \E t \in Threads : Return(t)
    \/ \E t \in Threads : Poll(t)
    \/ \E t \in Threads : PollNext(t)
    \/ \E t \in Threads : PollEnd(t)
    \/ \E e \in ingest : InsertStats(e)
    \/ \E e \in ingest : SetWinner(e)
    \/ \E e \in ingest : Complete(e)

Spec == Init /\ [][Next]_vars

\* the same steps with one caller only: calls and poll cycles follow one another
NextSeq ==
    \/ \E id \in ScrimIds : Call("a", id)
    \/ SelectScrim("a")
    \/ SelectPlayers("a")
    \/ SelectRating("a")
    \/ UpdatePlayerRating("a")
    \/ UpdateScrim("a")
    \/ Commit("a")
    \/ Fail("a")
    \/ Return("a")
    \/ Poll("a")
    \/ PollNext("a")
    \/ PollEnd("a")
    \/ \E e \in ingest : InsertStats(e)
    \/ \E e \in ingest : SetWinner(e)
    \/ \E e \in ingest : Complete(e)

SpecSeq == InitSeq /\ [][NextSeq]_vars

\* the periodic path alone: two timer callbacks that may overlap, no explicit calls
NextLive ==
    \/ \E t \in Threads : Poll(t)
    \/ \E t \in Threads : SelectScrim(t)
    \/ \E t \in Threads : SelectPlayers(t)
    \/ \E t \in Threads : SelectRating(t)
    \/ \E t \in Threads : UpdatePlayerRating(t)
    \/ \E t \in Threads : UpdateScrim(t)
    \/ \E t \in Threads : Commit(t)
    \/ \E t \in Threads : Fail(t)
    \/ \E t \in Threads : PollNext(t)
    \/ \E t \in Threads : PollEnd(t)
    \/ \E e \in ingest : InsertStats(e)
    \/ \E e \in ingest : SetWinner(e)
    \/ \E e \in ingest : Complete(e)

\* the steps of a callback other than a failure: the store answers every query, a
\* statement that waits for a row lock goes on when the lock is released, and the
\* event loop runs every continuation
Proceeds(t) ==
    \/ SelectScrim(t) \/ SelectPlayers(t) \/ SelectRating(t)
    \/ UpdatePlayerRating(t) \/ UpdateScrim(t) \/ Commit(t)
    \/ PollNext(t) \/ PollEnd(t)

\* setInterval keeps firing the callback, and every callback keeps running
SpecLive ==
    /\ Init
    /\ [][NextLive]_vars
    /\ \A t \in Threads : WF_vars(Poll(t)) /\ WF_vars(Proceeds(t))

\* one caller, scrims of several leagues
SpecLeagues == InitLeagues /\ [][NextSeq]_vars

\* one caller, and any row for scrim 1
SpecAnyRow == InitAnyRow /\ [][NextSeq]_vars

(* ------------------------------------------------------------ properties *)

Flags == [id \in ScrimRows |-> scrims[id].elo_processed]
Tables == <<elo_ratings, elo_history, Flags>>

HistoryCountIn(history, id, p) ==
    Cardinality({i \in DOMAIN history :
                   history[i].scrim_id = id /\ history[i].player_id = p})
HistoryCount(id, p) == HistoryCountIn(elo_history, id, p)

\* wins + losses of a player in a league, 0 without a record
GamesIn(ratings, p, league) ==
    IF <<p, league>> \in DOMAIN ratings
    THEN ratings[<<p, league>>].wins + ratings[<<p, league>>].losses
    ELSE 0
Games(p, league) == GamesIn(elo_ratings, p, league)

\* the rows of a participant list that have a team slot, team 1 first
Rated(players) == team1(players) \o team2(players)

\* the call of t ends in this step
Ends(t) == th[t].pc \in InFlight /\ th'[t].pc = "done"

\* the unit of writes t commits: the flag, and a rating and a history row for every
\* participant that has a team slot
WholeUnit(t) ==
    LET me == th[t]
        rated == Rated(me.players)
    IN  /\ elo_history' = elo_history \o me.wh
        /\ Len(me.wh) = Len(rated)
        /\ \A i \in DOMAIN rated : /\ me.wh[i].player_id = rated[i][1]
                                   /\ me.wh[i].scrim_id = me.scrimId
                                   /\ <<rated[i][1], me.scrim.league>> \in DOMAIN elo_ratings'
        /\ \A k \in DOMAIN elo_ratings' :
             elo_ratings'[k] = IF k \in DOMAIN me.wr THEN me.wr[k] ELSE elo_ratings[k]
        /\ scrims'[me.scrimId].elo_processed

\* the rating a player has in the table, 1000 without a record
StoredRatingIn(ratings, p, league) ==
    IF <<p, league>> \in DOMAIN ratings THEN ratings[<<p, league>>].rating
    ELSE DefaultRating
StoredRating(p, league) == StoredRatingIn(elo_ratings, p, league)

EmptyTeam(players) == team1(players) = <<>> \/ team2(players) = <<>>
RatedIds(players) == {Rated(players)[i][1] : i \in DOMAIN Rated(players)}

\* t executes its scrim query in this step and the query does not fail
Guarded(t) ==
    /\ th[t].pc = "selectScrim"
    /\ th'[t].pc # "selectScrim"
    /\ th'[t].outcome # "StoreError"

\* t commits in this step
Commits(t) == th[t].pc = "commit" /\ Ends(t) /\ th'[t].outcome = "Processed"

\* C1: however processMatch calls on one scrim interleave, the ledger holds at most one
\* history entry per (scrim, player) and a participant's counters grow at most once per
\* scrim.
C1_AtMostOncePerScrim ==
    /\ \A id \in ScrimRows, p \in Players : HistoryCount(id, p) <= 1
    /\ \A p \in Players :
         Games(p, "Academy") <= Cardinality({id \in ScrimRows : /\ p \in scrim_players[id]
                                                                 /\ scrims[id].elo_processed})

\* C2: a second processMatch call that follows a successful one on the same scrim returns
\* AlreadyProcessed and writes nothing, and the scrim then has exactly one history entry
\* per rated participant, whose counters count the scrim once.
C2_SequentialIdempotence ==
    [][\A t \in Threads :
         Guarded(t) /\ th[t].scrimId \in ScrimRows
                    /\ scrims[th[t].scrimId].status = "completed"
                    /\ scrims[th[t].scrimId].elo_processed
         => /\ th'[t].pc = "done"
            /\ th'[t].outcome = "AlreadyProcessed"
            /\ Tables' = Tables
            /\ \E p \in Players : HistoryCount(th[t].scrimId, p) = 1
            /\ \A p \in Players :
                 /\ HistoryCount(th[t].scrimId, p) <= 1
                 /\ Games(p, "Academy") =
                      Cardinality({id \in ScrimRows : HistoryCount(id, p) > 0})]_vars

\* C3: a call that ends in an error leaves rating records, history entries and
\* processed flags as they were, whatever it had written before the failure; and the
\* tables change only by the commit of a whole unit, so no caller sees a part of one.
C3_AllOrNothing ==
    [][/\ \A t \in Threads : Ends(t) /\ th'[t].outcome \in Errors => Tables' = Tables
       /\ Tables' # Tables =>
            \E t \in Threads : /\ th[t].pc = "commit"
                               /\ th'[t].outcome = "Processed"
                               /\ WholeUnit(t)]_vars

\* a call failed after it had written history rows for a scrim that stays unprocessed
C3_Witness ==
    \E t \in Threads :
        /\ th[t].pc = "done"
        /\ th[t].outcome = "StoreError"
        /\ Len(th[t].wh) = 2
        /\ ~scrims[th[t].scrimId].elo_processed
        /\ \A p \in Players : HistoryCount(th[t].scrimId, p) = 0

\* C4: a processed flag that is true stays true, and it becomes true only in the commit
\* of a processMatch run on that scrim, together with that run's rating and history rows.
C4_FlagOneWay ==
    [][\A id \in ScrimRows :
         /\ scrims[id].elo_processed => scrims'[id].elo_processed
         /\ ~scrims[id].elo_processed /\ scrims'[id].elo_processed =>
              \E t \in Threads : /\ th[t].pc = "commit"
                                 /\ th[t].scrimId = id
                                 /\ th[t].wh # <<>>
                                 /\ elo_history' = elo_history \o th[t].wh
                                 /\ DOMAIN th[t].wr # {}
                                 /\ \A k \in DOMAIN th[t].wr : elo_ratings'[k] = th[t].wr[k]]_vars

\* a run on a scrim was rolled back after the scrim had been processed by another run
C4_Witness ==
    \E t \in Threads :
        /\ th[t].pc = "done"
        /\ th[t].outcome = "StoreError"
        /\ th[t].wh # <<>>
        /\ scrims[th[t].scrimId].elo_processed

\* C5: a poll cycle calls processMatch for every scrim it discovered, also after one of
\* the calls threw: no cycle ends with discovered rows left.
C5_CycleCallsEveryRow ==
    \A t \in Threads : th[t].pc = "cycleEnd" => th[t].rows = <<>>

\* C6: processMatch on an id without a row fails with MatchNotFound, on a scrim that is not
\* completed with InvalidMatchState, on a completed unprocessed scrim without winner with
\* MissingWinner; each is an error for the caller and changes no rating record, history
\* entry or processed flag.
C6_FatalPreconditions ==
    [][\A t \in Threads :
         LET id == th[t].scrimId
             fatal(o) == /\ th'[t].pc = "done"
                         /\ th'[t].outcome = o
                         /\ o \in Errors
                         /\ Tables' = Tables
         IN  /\ Guarded(t) /\ id \notin ScrimRows => fatal("MatchNotFound")
             /\ Guarded(t) /\ id \in ScrimRows /\ scrims[id].status # "completed"
                  => fatal("InvalidMatchState")
             /\ Guarded(t) /\ id \in ScrimRows /\ scrims[id].status = "completed"
                           /\ ~scrims[id].elo_processed /\ scrims[id].winner_team = NULL
                  => fatal("MissingWinner")]_vars

\* one call failed on the scrim while it was not completed, another after it was
\* completed without a winner, and the scrim is still unprocessed and unrated
C6_Witness ==
    \E t, u \in Threads :
        /\ th[t].pc = "done" /\ th[t].outcome = "InvalidMatchState"
        /\ th[u].pc = "done" /\ th[u].outcome = "MissingWinner"
        /\ th[t].scrimId = th[u].scrimId
        /\ ~scrims[th[u].scrimId].elo_processed
        /\ \A p \in Players : HistoryCount(th[u].scrimId, p) = 0

\* C7: a call that finds team 1 or team 2 empty returns SkippedIncompleteTeams, which is
\* no error, and writes nothing; a call goes on to the updates only with two non-empty
\* teams, and the call that then commits records as old ratings the ratings stored
\* before it.
C7_IncompleteTeams ==
    [][\A t \in Threads :
         /\ Ends(t) /\ th'[t].outcome = "SkippedIncompleteTeams"
              => /\ Tables' = Tables
                 /\ EmptyTeam(th'[t].players)
                 /\ th'[t].outcome \notin Errors
         /\ Ends(t) /\ th[t].pc \in {"selectPlayers", "selectRating"}
                    /\ th'[t].outcome # "StoreError"
              => th'[t].outcome = "SkippedIncompleteTeams"
         /\ th[t].pc \in {"selectPlayers", "selectRating"}
                    /\ th'[t].pc = "updatePlayerRating"
              => ~EmptyTeam(th'[t].players)
         /\ Commits(t)
              => /\ ~EmptyTeam(th[t].players)
                 /\ scrims'[th[t].scrimId].elo_processed
                 /\ \A i \in DOMAIN th[t].wh :
                      th[t].wh[i].old_rating =
                        StoredRating(th[t].wh[i].player_id, th[t].scrim.league)]_vars

\* scrim 1 was skipped for an empty team and later processed, from the default ratings
C7_Witness ==
    \E t \in Threads :
        /\ 1 \in warned
        /\ th[t].pc = "done" /\ th[t].outcome = "Processed" /\ th[t].scrimId = 1
        /\ Len(th[t].wh) >= 2
        /\ \A i \in DOMAIN th[t].wh : th[t].wh[i].old_rating = DefaultRating
        /\ scrims[1].elo_processed

\* C8: whatever rows the participant query returns, a successful processMatch leaves
\* exactly one history entry per (scrim, rated player) and adds one to exactly one of the
\* player's two counters.
C8_OneEntryPerRatedPlayer ==
    [][\A t \in Threads :
         Commits(t) =>
           \A p \in RatedIds(th[t].players) :
              /\ HistoryCountIn(elo_history', th[t].scrimId, p) = 1
              /\ GamesIn(elo_ratings', p, th[t].scrim.league)
                   = Games(p, th[t].scrim.league) + 1]_vars

\* C9: a history entry's old rating is the player's stored rating (1000 without a
\* record) right before the commit that writes it, and its new rating the stored rating
\* right after; stated for the first commit on a scrim, so that other scrims' commits
\* are the only ones that can come between.
C9_HistoryMatchesStore ==
    [][\A t \in Threads :
         Commits(t) /\ ~scrims[th[t].scrimId].elo_processed =>
           \A i \in DOMAIN th[t].wh :
              LET r == th[t].wh[i]
              IN  /\ r.old_rating = StoredRating(r.player_id, th[t].scrim.league)
                  /\ r.new_rating
                       = StoredRatingIn(elo_ratings', r.player_id, th[t].scrim.league)]_vars

\* C10: a participant without a record is computed from rating 1000 and no wins or
\* losses; only a successful processing writes records; it creates the missing record
\* with the new rating and the counters (1, 0) for a player of the winning team, (0, 1)
\* otherwise.
C10_LazyDefault ==
    [][\A t \in Threads :
         /\ Ends(t) /\ th'[t].outcome # "Processed" => elo_ratings' = elo_ratings
         /\ th[t].pc = "selectRating" /\ th'[t].next = th[t].next + 1
              => LET p == th[t].players[th[t].next][1]
                 IN  <<p, th[t].scrim.league>> \notin DOMAIN elo_ratings
                       => th'[t].ratings[p] = [rating |-> DefaultRating, wins |-> 0, losses |-> 0]
         /\ Commits(t)
              => \A i \in DOMAIN th[t].wh :
                   LET p == th[t].wh[i].player_id
                       key == <<p, th[t].scrim.league>>
                       won == <<p, th[t].scrim.winner_team>> \in
                                {th[t].players[j] : j \in DOMAIN th[t].players}
                   IN  key \notin DOMAIN elo_ratings
                         => /\ key \in DOMAIN elo_ratings'
                            /\ elo_ratings'[key].wins = (IF won THEN 1 ELSE 0)
                            /\ elo_ratings'[key].losses = (IF won THEN 0 ELSE 1)
                            /\ \E j \in DOMAIN th[t].wh :
                                 /\ th[t].wh[j].player_id = p
                                 /\ elo_ratings'[key].rating = th[t].wh[j].new_rating]_vars

\* C11: whatever the team sizes, a successful processMatch in which every rated
\* participant was read with rating 1000 records (1000, 1016) for every participant of
\* the winning team and (1000, 984) for every participant of the other team, and leaves
\* 1016 and 984 as their stored ratings.
C11_EvenMatch ==
    [][\A t \in Threads :
         LET me == th[t]
             rated == Rated(me.players)
             after(i) == IF rated[i][2] = me.scrim.winner_team THEN 1016 ELSE 984
         IN  Commits(t) /\ (\A p \in RatedIds(me.players) : me.ratings[p].rating = 1000)
             => /\ Len(me.wh) = Len(rated)
                /\ \A i \in DOMAIN rated :
                     /\ me.wh[i].player_id = rated[i][1]
                     /\ me.wh[i].old_rating = 1000
                     /\ me.wh[i].new_rating = after(i)
                     /\ StoredRatingIn(elo_ratings', rated[i][1], me.scrim.league) = after(i)]_vars

\* the scrims a scan selects, and those of them the participant query finds a team
\* empty for
Eligible(id) ==
    scrims[id].status = "completed" /\ ~scrims[id].elo_processed /\ scrims[id].winner_team # NULL
Incomplete(id) == Eligible(id) /\ EmptyTeam(PlayersQuery(id))

\* the rows a cycle has still to call processMatch for, the one in flight included
Selected(me) == {me.rows[i] : i \in DOMAIN me.rows} \cup (IF me.pc = "cycleEnd" THEN {} ELSE {me.scrimId})

\* t's timer fires in this step
Scans(t) == th[t].pc = "idle" /\ th'[t].kind = "scan"

\* every scan selects every incomplete scrim again, however often it was skipped before
ScanSelectsIncomplete(t) ==
    Scans(t) => \A id \in ScrimRows : Incomplete(id) => id \in Selected(th'[t])

\* the scan's call on a scrim with an empty team ends in SkippedIncompleteTeams, no writes
ScanSkips(t) ==
    /\ th[t].kind = "scan"
    /\ th[t].pc \in {"selectPlayers", "selectRating"}
    /\ EmptyTeam(PlayersQuery(th[t].scrimId))
    /\ th'[t].pc # th[t].pc
    => \/ th'[t].outcome = "StoreError"
       \/ th'[t].pc = "selectRating"
       \/ /\ th'[t].pc = "done"
          /\ th'[t].outcome = "SkippedIncompleteTeams"
          /\ th[t].scrimId \in warned'
          /\ Tables' = Tables

\* no cycle ends before it has called processMatch for an incomplete scrim it selected
ScanCallsIncomplete(t) ==
    th[t].pc # "cycleEnd" /\ th'[t].pc = "cycleEnd"
    => \A id \in Selected(th'[t]) : ~Incomplete(id)

\* the scan's call that finds both teams non-empty goes on to rate the scrim
ScanProcessesComplete(t) ==
    /\ th[t].kind = "scan"
    /\ th[t].pc = "selectPlayers"
    /\ ~EmptyTeam(PlayersQuery(th[t].scrimId))
    /\ th'[t].pc # th[t].pc
    => \/ th'[t].outcome = "StoreError"
       \/ th'[t].pc = "selectRating" /\ ~EmptyTeam(th'[t].players)

\* C12: as long as a scrim is completed, unprocessed, has a winner and an empty team,
\* every scan cycle selects it and calls processMatch on it, which returns
\* SkippedIncompleteTeams and writes nothing, without a cap on the retries; once both
\* teams are non-empty the scan's call rates it.
C12_SkippedAndRetried ==
    [][\A t \in Threads : /\ ScanSelectsIncomplete(t)
                          /\ ScanSkips(t)
                          /\ ScanCallsIncomplete(t)
                          /\ ScanProcessesComplete(t)]_vars

\* C13: a scan selects only scrims that are completed, unprocessed and have a winner at
\* the time of the scan, so the periodic path never calls processMatch on a completed
\* scrim without a winner; MissingWinner is met on the explicit path alone.
C13_ScanNeedsWinner ==
    [][\A t \in Threads :
         /\ Scans(t) => \A id \in Selected(th'[t]) : id \in ScrimRows /\ Eligible(id)
         /\ Guarded(t) /\ th[t].kind = "scan"
              => /\ scrims[th[t].scrimId].status = "completed"
                 /\ scrims[th[t].scrimId].winner_team # NULL
                 /\ th'[t].outcome \notin {"MatchNotFound", "InvalidMatchState", "MissingWinner"}
         /\ Guarded(t) /\ th'[t].outcome = "MissingWinner"
              => /\ th[t].kind = "explicit"
                 /\ scrims[th[t].scrimId].status = "completed"
                 /\ scrims[th[t].scrimId].winner_team = NULL]_vars

\* scrim 1 is completed without a winner: an explicit call on it failed with
\* MissingWinner, and a scan cycle selected scrim 2 alone
C13_Witness ==
    \E t, u \in Threads :
        /\ scrims[1].status = "completed" /\ scrims[1].winner_team = NULL
        /\ th[t].pc = "done" /\ th[t].kind = "explicit"
        /\ th[t].scrimId = 1 /\ th[t].outcome = "MissingWinner"
        /\ th[u].kind = "scan" /\ th[u].pc = "selectScrim"
        /\ th[u].scrimId = 2 /\ th[u].rows = <<>>

\* C14: a run reads every rating before its first write, and what it writes is computed
\* from those pre-match ratings alone: the new rating of a participant from the
\* participant's own pre-match rating and the pre-match average of the other team, also
\* for team 2, which is updated after team 1 was written; every history entry's old
\* rating is the pre-match rating.
C14_PreMatchRatings ==
    [][\A t \in Threads :
         LET me == th[t]
             rated == Rated(me.players)
             pre(p) == me.ratings[p].rating
             avg1 == Avg(SumRatings(team1(me.players), me.ratings), Len(team1(me.players)))
             avg2 == Avg(SumRatings(team2(me.players), me.ratings), Len(team2(me.players)))
         IN  /\ me.pc = "selectRating" => me.wr = EmptyFn /\ me.wh = <<>>
             /\ me.pc = "selectRating" /\ th'[t].next = me.next + 1
                  => th'[t].ratings[me.players[me.next][1]].rating
                       = StoredRating(me.players[me.next][1], me.scrim.league)
             /\ me.pc \in {"updatePlayerRating", "updateScrim"} /\ th'[t].pc \in InFlight
                  => th'[t].ratings = me.ratings
             /\ Commits(t)
                  => /\ Len(me.wh) = Len(rated)
                     /\ \A i \in DOMAIN rated :
                          /\ me.wh[i].player_id = rated[i][1]
                          /\ me.wh[i].old_rating = pre(rated[i][1])
                          /\ me.wh[i].old_rating = StoredRating(rated[i][1], me.scrim.league)
                          /\ me.wh[i].new_rating
                               = calculateNewRating(pre(rated[i][1]),
                                                    IF rated[i][2] = 1 THEN avg2 ELSE avg1,
                                                    IF rated[i][2] = me.scrim.winner_team
                                                    THEN 1 ELSE 0)]_vars

\* scrim 1 was rated with two players in team 1 whose pre-match ratings differ
C14_Witness ==
    \E t \in Threads :
        /\ th[t].pc = "done" /\ th[t].outcome = "Processed" /\ th[t].scrimId = 1
        /\ Len(team1(th[t].players)) = 2 /\ Len(team2(th[t].players)) = 1
        /\ Len(th[t].wh) = 3
        /\ th[t].wh[1].old_rating # th[t].wh[2].old_rating
        /\ th[t].wh[3].new_rating # th[t].wh[3].old_rating

\* C15: a successful processMatch overwrites the rating of every rated participant that
\* has a record with the computed new rating, and adds to the counters: one win and no
\* loss for a participant of the winning team, one loss and no win otherwise.
C15_CountersAdditive ==
    [][\A t \in Threads :
         LET me == th[t]
             rated == Rated(me.players)
         IN  Commits(t) =>
               \A i \in DOMAIN rated :
                  LET key == <<rated[i][1], me.scrim.league>>
                      won == rated[i][2] = me.scrim.winner_team
                  IN  key \in DOMAIN elo_ratings
                        => /\ i \in DOMAIN me.wh
                           /\ me.wh[i].player_id = rated[i][1]
                           /\ elo_ratings'[key].rating = me.wh[i].new_rating
                           /\ elo_ratings'[key].wins
                                = elo_ratings[key].wins + (IF won THEN 1 ELSE 0)
                           /\ elo_ratings'[key].losses
                                = elo_ratings[key].losses + (IF won THEN 0 ELSE 1)]_vars

\* C16: the guards are evaluated in the order existence, status, processed flag, winner,
\* team partition: a scrim that is not completed gives InvalidMatchState also when its
\* flag is true, a completed processed scrim gives AlreadyProcessed also without a
\* winner, a completed unprocessed scrim without winner gives MissingWinner also with an
\* empty team, and only a scrim that passed all of these is skipped for an empty team.
C16_GuardOrder ==
    [][\A t \in Threads :
         LET id == th[t].scrimId
             ends(o) == th'[t].pc = "done" /\ th'[t].outcome = o
         IN  /\ Guarded(t) /\ id \notin ScrimRows => ends("MatchNotFound")
             /\ Guarded(t) /\ id \in ScrimRows =>
                  /\ scrims[id].status # "completed" => ends("InvalidMatchState")
                  /\ scrims[id].status = "completed" /\ scrims[id].elo_processed
                       => ends("AlreadyProcessed") /\ Tables' = Tables
                  /\ scrims[id].status = "completed" /\ ~scrims[id].elo_processed
                                                     /\ scrims[id].winner_team = NULL
                       => ends("MissingWinner")
                  /\ Eligible(id) => th'[t].pc = "selectPlayers"
             /\ Ends(t) /\ th'[t].outcome = "SkippedIncompleteTeams"
                  => /\ th[t].pc \in {"selectPlayers", "selectRating"}
                     /\ th[t].scrim.status = "completed"
                     /\ ~th[t].scrim.elo_processed
                     /\ th[t].scrim.winner_team # NULL]_vars

\* a call on a completed, processed scrim without winner and with an empty team
\* returned AlreadyProcessed
C16_Witness ==
    \E t \in Threads :
        /\ th[t].pc = "done" /\ th[t].outcome = "AlreadyProcessed" /\ th[t].scrimId = 1
        /\ scrims[1].status = "completed" /\ scrims[1].elo_processed
        /\ scrims[1].winner_team = NULL
        /\ EmptyTeam(PlayersQuery(1))

\* the participants the participant query returned without a team slot
Unassigned(players) == {players[j][1] : j \in {k \in DOMAIN players : players[k][2] = NULL}}

\* C17: with two non-empty teams and participants without a team slot, processMatch
\* returns Processed and sets the flag; the unassigned participants get no record, no
\* change of a record and no history entry, the averages are taken over the assigned
\* participants alone, and once the flag is true no call adds a history entry for the
\* scrim, so they are never rated for it.
C17_UnassignedUntouched ==
    [][\A t \in Threads :
         LET me == th[t]
             id == me.scrimId
             rated == Rated(me.players)
             assigned(tm) == SelectSeq(me.players, LAMBDA r : r[2] = tm)
             avg(tm) == Avg(SumRatings(assigned(tm), me.ratings), Len(assigned(tm)))
         IN  /\ me.pc \in {"selectPlayers", "selectRating"} /\ Ends(t)
                  /\ th'[t].outcome # "StoreError"
                  => assigned(1) = <<>> \/ assigned(2) = <<>>
             /\ Commits(t) /\ Unassigned(me.players) # {}
                  => /\ assigned(1) # <<>> /\ assigned(2) # <<>>
                     /\ scrims'[id].elo_processed
                     /\ \A p \in Unassigned(me.players) :
                          /\ HistoryCountIn(elo_history', id, p) = 0
                          /\ <<p, me.scrim.league>> \in DOMAIN elo_ratings'
                               <=> <<p, me.scrim.league>> \in DOMAIN elo_ratings
                          /\ <<p, me.scrim.league>> \in DOMAIN elo_ratings
                               => elo_ratings'[<<p, me.scrim.league>>]
                                    = elo_ratings[<<p, me.scrim.league>>]
                     /\ \A i \in DOMAIN me.wh :
                          \E tm \in {1, 2} :
                             /\ <<me.wh[i].player_id, tm>> \in {rated[j] : j \in DOMAIN rated}
                             /\ me.wh[i].new_rating
                                  = calculateNewRating(me.wh[i].old_rating, avg(3 - tm),
                                                       IF tm = me.scrim.winner_team THEN 1 ELSE 0)
             /\ Guarded(t) /\ id \in ScrimRows /\ scrims[id].status = "completed"
                           /\ scrims[id].elo_processed
                  => th'[t].pc = "done" /\ th'[t].outcome = "AlreadyProcessed"
             /\ \A m \in ScrimRows, p \in Players :
                  scrims[m].elo_processed
                    => HistoryCountIn(elo_history', m, p) = HistoryCount(m, p)]_vars

\* scrim 1 was rated while p2 had no team slot; p2's stats arrived afterwards and a later
\* call returned AlreadyProcessed, leaving p2 unrated for scrim 1
C17_Witness ==
    \E t \in Threads :
        /\ th[t].pc = "done" /\ th[t].outcome = "AlreadyProcessed" /\ th[t].scrimId = 1
        /\ scrims[1].elo_processed
        /\ HistoryCount(1, "p1") = 1 /\ HistoryCount(1, "p3") = 1
        /\ HistoryCount(1, "p2") = 0
        /\ <<1, "p2", 1>> \in match_player_stats

\* the history entries of a player for scrims of a league
LedgerCount(p, league) ==
    Cardinality({i \in DOMAIN elo_history :
                   /\ elo_history[i].player_id = p
                   /\ scrims[elo_history[i].scrim_id].league = league})

\* C18: in every committed state, whatever calls ran and however they interleaved, the
\* wins and losses of a (player, league) record add up to the number of history entries
\* of the player for scrims of the league, a player without such entries has no record,
\* and only scrims whose processed flag is true have history entries.
C18_LedgerMatchesCounters ==
    /\ \A p \in Players, league \in Leagues :
         /\ Games(p, league) = LedgerCount(p, league)
         /\ <<p, league>> \in DOMAIN elo_ratings <=> LedgerCount(p, league) > 0
    /\ \A i \in DOMAIN elo_history :
         /\ elo_history[i].scrim_id \in ScrimRows
         /\ scrims[elo_history[i].scrim_id].elo_processed

\* both scrims are rated, scrim 2 twice by concurrent calls: p2 has three or more
\* history entries and counters that add up to as many
C18_Witness ==
    /\ HistoryCount(1, "p2") >= 1
    /\ HistoryCount(2, "p2") = 2
    /\ Games("p2", "Academy") = LedgerCount("p2", "Academy")
    /\ Games("p2", "Academy") >= 3
    /\ \A t \in Threads : th[t].pc \notin InFlight

\* C19: a step of a processMatch call on scrim m of league L changes at most the rating
\* records (p, L) of the participants p of m that have a team slot, appends history
\* entries of m only, and changes at most the processed flag of m; records of other
\* leagues and of other players, flags and history entries of other scrims, and the
\* status, winner and participant data of every scrim stay as they are.
C19_Frame ==
    [][\A t \in Threads :
         LET me == th[t]
             m == me.scrimId
         IN  me.pc \in InFlight /\ th'[t] # me
             => /\ scrim_players' = scrim_players
                /\ match_player_stats' = match_player_stats
                /\ \A id \in ScrimRows :
                     /\ scrims'[id].status = scrims[id].status
                     /\ scrims'[id].winner_team = scrims[id].winner_team
                     /\ scrims'[id].league = scrims[id].league
                     /\ id # m => scrims'[id].elo_processed = scrims[id].elo_processed
                /\ \A key \in DOMAIN elo_ratings \cup DOMAIN elo_ratings' :
                     \/ /\ key \in DOMAIN elo_ratings /\ key \in DOMAIN elo_ratings'
                        /\ elo_ratings'[key] = elo_ratings[key]
                     \/ /\ m \in ScrimRows
                        /\ key[2] = scrims[m].league
                        /\ key[1] \in RatedIds(me.players)
                        /\ key[1] \in scrim_players[m]
                /\ Len(elo_history') >= Len(elo_history)
                /\ \A i \in DOMAIN elo_history' :
                     IF i \in DOMAIN elo_history THEN elo_history'[i] = elo_history[i]
                     ELSE elo_history'[i].scrim_id = m]_vars

\* scrim 2 was rated in league Champion and then scrim 1 in league Academy: p2 has a
\* record in both, and the Champion record is as scrim 2 left it
C19_Witness ==
    \E t \in Threads :
        /\ th[t].pc = "done" /\ th[t].outcome = "Processed" /\ th[t].scrimId = 1
        /\ scrims[2].league = "Champion" /\ scrims[2].elo_processed
        /\ <<"p2", "Academy">> \in DOMAIN elo_ratings
        /\ <<"p2", "Champion">> \in DOMAIN elo_ratings
        /\ elo_ratings[<<"p2", "Champion">>] = [rating |-> 1016, wins |-> 1, losses |-> 0]
        /\ <<"p1", "Champion">> \notin DOMAIN elo_ratings

\* a scrim the periodic path can rate: completed, unprocessed, with a winner and two
\* non-empty teams
Ready(id) == Eligible(id) /\ ~EmptyTeam(PlayersQuery(id))

\* from some point on no query fails
FailuresStop == <>[][\A t \in Threads : ~Fail(t)]_vars

\* C20: while the timer keeps firing and once the store has stopped failing, every scrim
\* that is completed, unprocessed, has a winner and two non-empty teams gets its
\* processed flag set, also when other scrims of the cycle are skipped for an empty team
\* and when cycles overlap.
C20_ReadyIsProcessed ==
    FailuresStop => \A id \in ScrimRows : Ready(id) ~> scrims[id].elo_processed

\* scrim 1 was skipped for an empty team, a cycle was ended by a store error, and both
\* scrims are processed in the end
C20_Witness ==
    /\ 1 \in warned
    /\ \A id \in {1, 2} : scrims[id].elo_processed
    /\ \E t \in Threads : th[t].pc = "cycleEnd" /\ th[t].outcome = "StoreError"

====
